---- MODULE Spec2Model ----
(***************************************************************************)
(* A model of asset.ipynb, the RAG notebook.                               *)
(*                                                                         *)
(* The state is the kernel's namespace (the global names the cells bind)   *)
(* together with what the last cell displayed or raised.  There is one     *)
(* action per code cell, run top to bottom; a cell that raises keeps the   *)
(* bindings it made before the exception, as a Jupyter kernel does, and   *)
(* the next cell can still be run.                                         *)
(*                                                                         *)
(* The external collaborators are modelled by what the notebook can see of *)
(* them: the HuggingFace embedder maps a text to a unit vector (here an    *)
(* integer vector of norm 5, so the cosine similarity is the inner product *)
(* scaled by 25), the language model is a deterministic function of its    *)
(* prompt (it echoes the prompt after a reply marker, so that two prompts  *)
(* that differ give answers that differ), and any call to a backend may    *)
(* fail.                                                                   *)
(***************************************************************************)
EXTENDS Integers, Sequences, FiniteSets, TLC

\* Bounds of the model.
MaxPages == 2
MaxIndex == 4
MaxFragment == 2

\* as_retriever() is called without search_kwargs: similarity search, k = 4.
DefaultK == 4

(***************************************************************************)
(* The kernel.                                                             *)
(*   pc           the code cell to run next (1..13; 14 when all have run)  *)
(*   bound        the global names that are bound                          *)
(*   MODEL .. questions  the values of the globals (a default while       *)
(*                unbound)                                                 *)
(*   tieOrder     how this build's top-k selection orders equal scores     *)
(*   out          what the last cell displayed, or the exception it raised *)
(*   calls        the chain runs of the last cell, one Trace per run       *)
(*   faults       the positions whose embedding / generation the backends  *)
(*                failed in the last cell                                  *)
(*   loopAnswers  the answers the question loop printed                    *)
(*   gen, printed the open generation of the stream cell and what the      *)
(*                cell has printed of it                                   *)
(*   probe        the query vector and the limit of the last search made   *)
(*                on the index directly (SearchSpec)                       *)
(***************************************************************************)
VARIABLES pc, bound, MODEL, model, embeddings, response, chain, pages,
          vectorstore, retriever, questions, tieOrder, out, calls,
          faults, loopAnswers, gen, printed, probe

vars == <<pc, bound, MODEL, model, embeddings, response, chain, pages,
          vectorstore, retriever, questions, tieOrder, out, calls,
          faults, loopAnswers, gen, printed, probe>>

globals == <<probe, MODEL, model, embeddings, response, chain, pages, vectorstore,
             retriever, questions, tieOrder>>

(***************************************************************************)
(* Text.  A string is a sequence of tokens, a token a pair <<kind, n>>.    *)
(***************************************************************************)
Tok(kind, n) == <<kind, n>>

Lit(s) == <<Tok(s, 0)>>

\* page_content of the i-th page of the PDF
Text(i) == <<Tok("page text", i)>>

\* The query strings the cells pass.
QueryCities == <<Tok("Afghanistan cities", 0)>>
QueryBamiyan == <<Tok("tell me about Bamiyan", 0)>>
QueryOverview == <<Tok("Give me an overview of Afghanistan", 0)>>
QuestionLanguages == <<Tok("What are the languages of Afghanistan?", 0)>>
QuestionPopulation == <<Tok("How much is the population of Afghanistan", 0)>>

\* The two members of the set literal `questions`.
QuestionSet == {QuestionLanguages, QuestionPopulation}

RECURSIVE JoinSeq(_, _)
JoinSeq(ss, sep) ==
    IF ss = <<>> THEN <<>>
    ELSE IF Len(ss) = 1 THEN Head(ss)
    ELSE Head(ss) \o sep \o JoinSeq(Tail(ss), sep)

(***************************************************************************)
(* Results of a call: a value, or the exception it raised.                 *)
(***************************************************************************)
Ok(v) == [kind |-> "ok", value |-> v]
Err(k) == [kind |-> k, value |-> <<>>]

(***************************************************************************)
(* Configuration cell.  A model name is kept as its pieces, so that        *)
(* MODEL.startswith("gpt") is a test on the name and not a flag.           *)
(***************************************************************************)
ModelNames == {<<"gpt", "-3.5-turbo">>, <<"llama", "3.1">>}

StartsWithGpt(name) == name[1] = "gpt"

(***************************************************************************)
(* Embedders.  Every embedder instance returns vectors of one dimension;   *)
(* the three classes differ in it (scaled down: 2, 3 and 4 here).          *)
(***************************************************************************)
Vecs == {<<5, 0>>, <<4, 3>>, <<4, -3>>}

Dim(e) ==
    CASE e = "HuggingFaceEmbeddings" -> 2
      [] e = "OpenAIEmbeddings" -> 3
      [] e = "OllamaEmbeddings" -> 4

\* The vector embedder e gives the text whose MiniLM vector is v.
Embed(e, v) == [i \in 1..Dim(e) |-> IF i <= Len(v) THEN v[i] ELSE 0]

\* The embedder is deterministic and the queries are literals of the
\* notebook, so each has one vector (the pages' vectors vary with the PDF).
MiniLM(query) ==
    CASE query = QueryCities -> <<5, 0>>
      [] query = QueryBamiyan -> <<4, 3>>
      [] query = QueryOverview -> <<4, -3>>
      [] query = QuestionLanguages -> <<5, 0>>
      [] query = QuestionPopulation -> <<4, 3>>

\* embed_query
EmbedQuery(e, query) == Embed(e, MiniLM(query))

RECURSIVE DotUpTo(_, _, _)
DotUpTo(a, b, n) == IF n = 0 THEN 0 ELSE a[n] * b[n] + DotUpTo(a, b, n - 1)

\* metric="cosine_sim" on unit vectors: the inner product.
CosineSim(a, b) == DotUpTo(a, b, Len(a))

(***************************************************************************)
(* The language model and the output parser.                               *)
(***************************************************************************)
\* ChatOpenAI returns a message object, Ollama a plain string.
Generate(m, promptText) ==
    [type |-> IF m = "ChatOpenAI" THEN "AIMessage" ELSE "str",
     by |-> m,
     content |-> <<Tok("reply", 0)>> \o promptText]

StrOutputParser(x) == x.content

LMCall(m, promptText, fails) ==
    IF fails THEN Err("GenerationError") ELSE Ok(Generate(m, promptText))

(***************************************************************************)
(* The prompt template.                                                    *)
(***************************************************************************)
Document(text, meta) == [page_content |-> text, metadata |-> meta]

\* repr() of a Document, as str() of a list shows its elements.
DocRepr(d) ==
    <<Tok("Document(metadata={'source': 'afghanistan.pdf', 'page': ", d.metadata)>>
    \o Lit("}, page_content='") \o d.page_content \o Lit("')")

\* str() of a Python list of Documents.
PyStrList(docs) ==
    Lit("[") \o JoinSeq([i \in 1..Len(docs) |-> DocRepr(docs[i])], Lit(", "))
    \o Lit("]")

StrValue(s) == [type |-> "str", str |-> s, docs |-> <<>>]
ListValue(docs) == [type |-> "list", str |-> <<>>, docs |-> docs]

\* What "{context}" is replaced by: format(value, ""), that is str(value).
PyStr(v) == IF v.type = "str" THEN v.str ELSE PyStrList(v.docs)

\* template.format(context=..., question=...)
PromptFormat(context, question) ==
    Lit("\nAPlease answer the question based on the below context. If you can't \nanswer the question, reply \"I don't know\".\n\nContext: ")
    \o PyStr(context) \o Lit("\n\nQuestion: ") \o question \o Lit("\n")

(***************************************************************************)
(* The vector store (DocArrayInMemorySearch) and the retriever.            *)
(***************************************************************************)
EmptyStore(e) == [embedding |-> e, docs |-> <<>>]

\* add_texts indexes one document at a time, each with its embedding.
Add(store, doc, vector) ==
    [store EXCEPT !.docs =
        Append(@, [text |-> doc.page_content, metadata |-> doc.metadata,
                   embedding |-> vector])]

RECURSIVE AddAll(_, _, _)
AddAll(store, docs, vectors) ==
    IF docs = <<>> THEN store
    ELSE AddAll(Add(store, Head(docs), Head(vectors)), Tail(docs), Tail(vectors))

\* DocArrayInMemorySearch.from_documents(pages, embedding=embeddings); vs[i]
\* is the MiniLM vector of the i-th page's text.
FromDocuments(docs, e, vs) ==
    AddAll(EmptyStore(e), docs, [i \in 1..Len(docs) |-> Embed(e, vs[i])])

Min(a, b) == IF a <= b THEN a ELSE b

\* Before with the scores compared the wrong way round (the negation that
\* makes the sort descending left out).
BeforeAscending(i, j, scores, prio) ==
    \/ scores[i] < scores[j]
    \/ scores[i] = scores[j] /\ prio[i] < prio[j]

\* Entry i is ranked before entry j: the higher score first.  The selection
\* the store delegates to (an argsort/argpartition of the negated scores) is
\* not a stable sort, so among equal scores the order is whatever that sort
\* leaves: prio, a permutation of the positions, stands for it.
Before(i, j, scores, prio) ==
    \/ scores[i] > scores[j]
    \/ scores[i] = scores[j] /\ prio[i] < prio[j]

RECURSIVE Ranked(_, _, _)
Ranked(S, scores, prio) ==
    IF S = {} THEN <<>>
    ELSE LET b == CHOOSE i \in S : \A j \in S \ {i} : Before(i, j, scores, prio)
         IN  <<b>> \o Ranked(S \ {b}, scores, prio)

\* TopK with the limit ignored.
TopKUnlimited(scores, k, prio) == Ranked(DOMAIN scores, scores, prio)

\* The positions of the min(k, n) best entries, best first.
TopK(scores, k, prio) ==
    SubSeq(Ranked(DOMAIN scores, scores, prio), 1, Min(k, Len(scores)))

\* doc_index.find(query, search_field="embedding", limit=k): an empty index
\* answers with no hits before anything is computed; otherwise the scores are
\* a matrix product, which raises when the dimensions differ.
Search(store, qv, k, prio) ==
    IF store.docs = <<>> THEN Ok(<<>>)
    ELSE IF \E i \in DOMAIN store.docs : Len(store.docs[i].embedding) # Len(qv)
    THEN Err("DimensionMismatch")
    ELSE LET scores == [i \in DOMAIN store.docs |->
                            CosineSim(qv, store.docs[i].embedding)]
             order == TopK(scores, k, prio)
         IN  Ok([j \in DOMAIN order |-> [pos |-> order[j], score |-> scores[order[j]]]])

\* vectorstore.as_retriever()
AsRetriever(store) == [vectorstore |-> store, k |-> DefaultK]

\* QueryEmbedder as the embedder the initialization cell selected for MODEL.
QueryEmbedderSelected(retr) ==
    IF StartsWithGpt(MODEL) THEN "OpenAIEmbeddings" ELSE "OllamaEmbeddings"

\* The retriever embeds a query with the embedder its store was built with.
QueryEmbedder(retr) == retr.vectorstore.embedding

\* retriever.invoke(query): the Documents of the hits, scores dropped.
Retrieve(retr, query, embFails, prio) ==
    IF embFails THEN Err("EmbeddingError")
    ELSE LET r == Search(retr.vectorstore, EmbedQuery(QueryEmbedder(retr), query),
                         retr.k, prio)
         IN  IF r.kind # "ok" THEN r
             ELSE Ok([j \in DOMAIN r.value |->
                        LET d == retr.vectorstore.docs[r.value[j].pos]
                        IN  Document(d.text, d.metadata)])

(***************************************************************************)
(* The three chains the name `chain` is bound to in turn.                  *)
(***************************************************************************)
\* What one run of a chain did: its result, the documents retrieved and the
\* prompt handed to the model (called: whether the model was reached).
Trace(result, question, docs, promptText, called) ==
    [kind |-> result.kind, value |-> result.value, question |-> question,
     docs |-> docs, prompt |-> promptText, called |-> called]

\* model | parser
SimpleInvoke(m, text, genFails) ==
    LET r == LMCall(m, text, genFails)
    IN  IF r.kind = "ok" THEN Ok(StrOutputParser(r.value)) ELSE r

\* prompt | model | parser on a dict with the keys in `keys`
PromptChainInvoke(m, keys, context, question, genFails) ==
    IF ~({"context", "question"} \subseteq keys) THEN Err("KeyError")
    ELSE SimpleInvoke(m, PromptFormat(context, question), genFails)

\* {"context": itemgetter("question") | retriever, "question": ...} | prompt
\* | model | parser: the retriever's list of Documents is the context value.
RetrievalInvoke(m, retr, question, embFails, genFails, prio) ==
    LET r == Retrieve(retr, question, embFails, prio)
    IN  IF r.kind # "ok" THEN Trace(r, question, <<>>, <<>>, FALSE)
        ELSE LET p == PromptFormat(ListValue(r.value), question)
             IN  Trace(SimpleInvoke(m, p, genFails), question, r.value, p, TRUE)

\* chain.invoke({"question": question}) for whatever `chain` is bound to.
ChainInvoke(ch, m, retr, question, embFails, genFails, prio) ==
    CASE ch = "retrieval" ->
            RetrievalInvoke(m, retr, question, embFails, genFails, prio)
      [] ch = "prompt|model|parser" ->
            Trace(PromptChainInvoke(m, {"question"}, StrValue(<<>>), question, genFails),
                  question, <<>>, <<>>, FALSE)
      [] OTHER -> Trace(Err("ValueError"), question, <<>>, <<>>, FALSE)

NoFaults == [emb |-> {}, gen |-> {}]
NoGen == [state |-> "idle", remaining |-> <<>>]
NoProbe == [query |-> <<>>, k |-> 0]
NoResponse == [type |-> "", by |-> "", content |-> <<>>]

Init ==
    /\ pc = 1
    /\ bound = {}
    /\ MODEL = <<"", "">>
    /\ model = ""
    /\ embeddings = ""
    /\ response = NoResponse
    /\ chain = ""
    /\ pages = <<>>
    /\ vectorstore = EmptyStore("")
    /\ retriever = [vectorstore |-> EmptyStore(""), k |-> 0]
    /\ questions = <<>>
    /\ tieOrder = <<>>
    /\ out = [cell |-> "", kind |-> "ok", value |-> <<>>]
    /\ calls = <<>>
    /\ faults = NoFaults
    /\ loopAnswers = <<>>
    /\ gen = NoGen
    /\ printed = <<>>
    /\ probe = NoProbe

\* The cell `name` ends with result r (displayed, or raised).
Ends(name, r) ==
    /\ pc' = pc + 1
    /\ out' = [cell |-> name, kind |-> r.kind, value |-> r.value]

Quiet == calls' = <<>> /\ faults' = NoFaults /\ UNCHANGED <<loopAnswers, gen, printed>>

(***************************************************************************)
(* Cell 1: MODEL = "llama3.1", or the commented-out "gpt-3.5-turbo".       *)
(***************************************************************************)
ConfigCell ==
    /\ pc = 1
    /\ \E name \in ModelNames : MODEL' = name
    /\ bound' = bound \cup {"OPENAI_API_KEY", "MODEL"}
    /\ Ends("config", Ok(<<>>))
    /\ Quiet
    /\ UNCHANGED <<probe, model, embeddings, response, chain, pages, vectorstore,
                   retriever, questions, tieOrder>>

(***************************************************************************)
(* Cell 2: the model and the embeddings for MODEL, and print(response).    *)
(* response is assigned in the else branch only; print(response) follows   *)
(* the if statement.                                                       *)
(***************************************************************************)
TestPrompt == <<Tok("Where is the capital city of Afghanistan?", 0)>>

\* print(name's value): a NameError when the name is not bound.
PrintName(name, names, value) ==
    IF name \in names THEN Ok(value) ELSE Err("NameError")

InitCell ==
    /\ pc = 2
    /\ IF StartsWithGpt(MODEL)
       THEN /\ model' = "ChatOpenAI"
            /\ embeddings' = "OpenAIEmbeddings"
            /\ bound' = bound \cup {"model", "embeddings"}
            /\ response' = response
            /\ faults' = NoFaults
            /\ Ends("init", PrintName("response", bound', response'))
       ELSE /\ model' = "Ollama"
            /\ embeddings' = "OllamaEmbeddings"
            /\ \E genFails \in BOOLEAN :
                 LET r == LMCall(model', TestPrompt, genFails)
                 IN  /\ faults' = [emb |-> {}, gen |-> IF genFails THEN {1} ELSE {}]
                     /\ IF r.kind = "ok"
                        THEN /\ response' = r.value
                             /\ bound' = bound \cup {"model", "embeddings", "response"}
                             /\ Ends("init", PrintName("response", bound', response'))
                        ELSE /\ response' = response
                             /\ bound' = bound \cup {"model", "embeddings"}
                             /\ Ends("init", r)
    /\ calls' = <<>>
    /\ UNCHANGED <<probe, MODEL, chain, pages, vectorstore, retriever, questions,
                   tieOrder, loopAnswers, gen, printed>>

(***************************************************************************)
(* Cell 3: parser, chain = model | parser, and a first question.           *)
(***************************************************************************)
SimpleChainCell ==
    /\ pc = 3
    /\ IF "model" \in bound
       THEN /\ chain' = "model|parser"
            /\ bound' = bound \cup {"parser", "chain"}
            /\ \E genFails \in BOOLEAN :
                 /\ faults' = [emb |-> {}, gen |-> IF genFails THEN {1} ELSE {}]
                 /\ Ends("simple_chain",
                         SimpleInvoke(model, Lit("Name 3 biggest cities of Afghanistan"),
                                      genFails))
       ELSE /\ chain' = chain
            /\ bound' = bound \cup {"parser"}
            /\ faults' = NoFaults
            /\ Ends("simple_chain", Err("NameError"))
    /\ calls' = <<>>
    /\ UNCHANGED <<probe, MODEL, model, embeddings, response, pages, vectorstore,
                   retriever, questions, tieOrder, loopAnswers, gen, printed>>

(***************************************************************************)
(* Cell 4: pages = loader.load_and_split()                                 *)
(***************************************************************************)
LoadCell ==
    /\ pc = 4
    /\ \/ /\ \E n \in 0..MaxPages :
               pages' = [i \in 1..n |-> Document(Text(i), i - 1)]
          /\ bound' = bound \cup {"loader", "pages"}
          /\ Ends("load", Ok(pages'))
       \/ /\ pages' = pages
          /\ bound' = bound \cup {"loader"}
          /\ Ends("load", Err("LoadError"))
    /\ Quiet
    /\ UNCHANGED <<probe, MODEL, model, embeddings, response, chain, vectorstore,
                   retriever, questions, tieOrder>>

(***************************************************************************)
(* Cell 5: the template, and a printed sample of it.                       *)
(***************************************************************************)
PromptCell ==
    /\ pc = 5
    /\ bound' = bound \cup {"template", "prompt"}
    /\ Ends("prompt", Ok(PromptFormat(StrValue(Lit("Here is the context")),
                                      Lit("Here is the question"))))
    /\ Quiet
    /\ UNCHANGED globals

(***************************************************************************)
(* Cell 6: chain = prompt | model | parser, asked with a literal context.  *)
(***************************************************************************)
PromptChainCell ==
    /\ pc = 6
    /\ IF {"prompt", "model", "parser"} \subseteq bound
       THEN /\ chain' = "prompt|model|parser"
            /\ bound' = bound \cup {"chain"}
            /\ \E genFails \in BOOLEAN :
                 /\ faults' = [emb |-> {}, gen |-> IF genFails THEN {1} ELSE {}]
                 /\ Ends("prompt_chain",
                         PromptChainInvoke(model, {"context", "question"},
                             StrValue(Lit("The capital city of Afghanistan is Kabul")),
                             Lit("Where is the capital of Afghanistan?"), genFails))
       ELSE /\ chain' = chain
            /\ bound' = bound
            /\ faults' = NoFaults
            /\ Ends("prompt_chain", Err("NameError"))
    /\ calls' = <<>>
    /\ UNCHANGED <<probe, MODEL, model, embeddings, response, pages, vectorstore,
                   retriever, questions, tieOrder, loopAnswers, gen, printed>>

\* The input keys a chain requires.
InputKeys(ch) ==
    CASE ch = "prompt|model|parser" -> Lit("context") \o Lit("question")
      [] ch = "retrieval" -> Lit("question")
      [] OTHER -> <<>>

(***************************************************************************)
(* Cell 7: chain.input_schema.schema()                                     *)
(***************************************************************************)
SchemaCell ==
    /\ pc = 7
    /\ bound' = bound
    /\ Ends("schema", PrintName("chain", bound, InputKeys(chain)))
    /\ Quiet
    /\ UNCHANGED globals

(***************************************************************************)
(* Cell 8: embeddings is rebound to the HuggingFace embedder, and the      *)
(* vector store is built from the pages with it.                           *)
(***************************************************************************)
VectorStoreCell ==
    /\ pc = 8
    /\ \/ \* loading the sentence-transformers model fails: nothing is bound
          /\ UNCHANGED <<embeddings, vectorstore, tieOrder, bound>>
          /\ Ends("vectorstore", Err("EmbeddingError"))
       \/ /\ embeddings' = "HuggingFaceEmbeddings"
          /\ IF "pages" \notin bound
             THEN /\ bound' = bound \cup {"embeddings"}
                  /\ UNCHANGED <<vectorstore, tieOrder>>
                  /\ Ends("vectorstore", Err("NameError"))
             ELSE \/ \* embedding the pages fails
                     /\ bound' = bound \cup {"embeddings"}
                     /\ UNCHANGED <<vectorstore, tieOrder>>
                     /\ Ends("vectorstore", Err("EmbeddingError"))
                  \/ /\ \E vs \in [1..Len(pages) -> Vecs] :
                          vectorstore' = FromDocuments(pages, embeddings', vs)
                     /\ tieOrder' \in Permutations(1..Len(pages))
                     /\ bound' = bound \cup {"embeddings", "vectorstore"}
                     /\ Ends("vectorstore", Ok(<<>>))
    /\ Quiet
    /\ UNCHANGED <<probe, MODEL, model, response, chain, pages, retriever, questions>>

(***************************************************************************)
(* Cell 9: retriever = vectorstore.as_retriever(), and a first query.      *)
(***************************************************************************)
RetrieverCell ==
    /\ pc = 9
    /\ IF "vectorstore" \in bound
       THEN /\ retriever' = AsRetriever(vectorstore)
            /\ bound' = bound \cup {"retriever"}
            /\ \E embFails \in BOOLEAN :
                 /\ faults' = [emb |-> IF embFails THEN {1} ELSE {}, gen |-> {}]
                 /\ Ends("retriever",
                         Retrieve(retriever', QueryCities, embFails, tieOrder))
       ELSE /\ UNCHANGED <<retriever, bound>>
            /\ faults' = NoFaults
            /\ Ends("retriever", Err("NameError"))
    /\ calls' = <<>>
    /\ UNCHANGED <<probe, MODEL, model, embeddings, response, chain, pages, vectorstore,
                   questions, tieOrder, loopAnswers, gen, printed>>

\* The faults the backends may inject into n chain runs: a run whose query
\* could not be embedded never reaches the model.
FaultSets(n) ==
    {f \in [emb : SUBSET (1..n), gen : SUBSET (1..n)] : f.emb \cap f.gen = {}}

\* The same for runs made one after the other, where the first exception
\* ends the cell: no later run is attempted.
FirstFault(n) == {f \in FaultSets(n) : Cardinality(f.emb \cup f.gen) <= 1}

\* RagChainCell with the assignment to `chain` left out.
RagChainCellKeepsChain ==
    /\ pc = 10
    /\ \E f \in FaultSets(1) :
         LET t == ChainInvoke(chain, model, retriever, QueryBamiyan,
                              1 \in f.emb, 1 \in f.gen, tieOrder)
         IN  /\ faults' = f
             /\ calls' = <<t>>
             /\ Ends("rag_chain", t)
    /\ UNCHANGED <<bound, loopAnswers, gen, printed>>
    /\ UNCHANGED globals

(***************************************************************************)
(* Cell 10: chain is bound to the retrieval pipeline and asked once.       *)
(***************************************************************************)
RagChainCell ==
    /\ pc = 10
    /\ IF {"retriever", "prompt", "model", "parser"} \subseteq bound
       THEN /\ chain' = "retrieval"
            /\ bound' = bound \cup {"chain"}
            /\ \E f \in FaultSets(1) :
                 LET t == ChainInvoke(chain', model, retriever, QueryBamiyan,
                                      1 \in f.emb, 1 \in f.gen, tieOrder)
                 IN  /\ faults' = f
                     /\ calls' = <<t>>
                     /\ Ends("rag_chain", t)
       ELSE /\ UNCHANGED <<chain, bound>>
            /\ faults' = NoFaults
            /\ calls' = <<>>
            /\ Ends("rag_chain", Err("NameError"))
    /\ UNCHANGED <<probe, MODEL, model, embeddings, response, pages, vectorstore,
                   retriever, questions, tieOrder, loopAnswers, gen, printed>>

(***************************************************************************)
(* Cell 11: the set `questions`, and chain.invoke on each member in the    *)
(* set's iteration order; an exception ends the loop.                      *)
(***************************************************************************)
\* The orders in which a set of strings is iterated (one per hash seed).
IterationOrders(S) ==
    {q \in [1..Cardinality(S) -> S] : \A i, j \in DOMAIN q : i # j => q[i] # q[j]}

RECURSIVE LoopFrom(_, _, _)
LoopFrom(i, qs, f) ==
    IF i > Len(qs) THEN <<>>
    ELSE LET t == ChainInvoke(chain, model, retriever, qs[i],
                              i \in f.emb, i \in f.gen, tieOrder)
         IN  IF t.kind = "ok" THEN <<t>> \o LoopFrom(i + 1, qs, f) ELSE <<t>>

IsOk(t) == t.kind = "ok"

\* The answers of the runs that returned one, in order.
Answers(traces) ==
    LET good == SelectSeq(traces, IsOk)
    IN  [i \in DOMAIN good |-> good[i].value]

LoopResult(traces) ==
    IF traces # <<>> /\ traces[Len(traces)].kind # "ok"
    THEN [kind |-> traces[Len(traces)].kind, value |-> Answers(traces)]
    ELSE Ok(Answers(traces))

LoopCell ==
    /\ pc = 11
    /\ questions' \in IterationOrders(QuestionSet)
    /\ bound' = bound \cup {"questions", "question"}
    /\ \E f \in FirstFault(Len(questions')) :
         LET traces == LoopFrom(1, questions', f)
         IN  /\ faults' = f
             /\ calls' = traces
             /\ loopAnswers' = Answers(traces)
             /\ Ends("loop", LoopResult(traces))
    /\ UNCHANGED <<probe, MODEL, model, embeddings, response, chain, pages, vectorstore,
                   retriever, tieOrder, gen, printed>>

(***************************************************************************)
(* Cell 12: for s in chain.stream(...): print(s, end="").  The retrieval   *)
(* and the prompt are computed when the stream is opened; the model then   *)
(* yields its answer fragment by fragment, and the parser passes each on.  *)
(***************************************************************************)
\* The tokens a generation for promptText yields, in order: the model's
\* single-shot answer is their concatenation.
StreamTokens(m, promptText) == Generate(m, promptText).content

\* TakeFragment that passes on the first token of a fragment only.
TakeFirstToken(remaining, n) == SubSeq(remaining, 1, 1)

TakeFragment(remaining, n) == SubSeq(remaining, 1, n)
DropFragment(remaining, n) == SubSeq(remaining, n + 1, Len(remaining))

StreamOpen ==
    /\ pc = 12
    /\ gen.state = "idle"
    /\ printed' = <<>>
    /\ \E f \in FaultSets(1) :
         /\ faults' = f
         /\ IF chain = "retrieval"
            THEN LET r == Retrieve(retriever, QueryOverview, 1 \in f.emb, tieOrder)
                     p == PromptFormat(ListValue(r.value), QueryOverview)
                 IN  IF r.kind # "ok"
                     THEN /\ calls' = <<Trace(r, QueryOverview, <<>>, <<>>, FALSE)>>
                          /\ gen' = [state |-> "closed", remaining |-> <<>>]
                          /\ Ends("stream", r)
                     ELSE IF 1 \in f.gen
                     THEN /\ calls' = <<Trace(Err("GenerationError"), QueryOverview,
                                              r.value, p, TRUE)>>
                          /\ gen' = [state |-> "closed", remaining |-> <<>>]
                          /\ Ends("stream", Err("GenerationError"))
                     ELSE /\ calls' = <<Trace(Ok(<<>>), QueryOverview, r.value, p, TRUE)>>
                          /\ gen' = [state |-> "open",
                                     remaining |-> StreamTokens(model, p)]
                          /\ pc' = pc
                          /\ out' = [cell |-> "stream", kind |-> "running", value |-> <<>>]
            ELSE LET t == ChainInvoke(chain, model, retriever, QueryOverview,
                                      FALSE, FALSE, tieOrder)
                 IN  /\ calls' = <<t>>
                     /\ gen' = [state |-> "closed", remaining |-> <<>>]
                     /\ Ends("stream", t)
    /\ UNCHANGED <<bound, loopAnswers>>
    /\ UNCHANGED globals

\* One iteration of the for loop: the next fragment is printed.
StreamFragment ==
    /\ pc = 12
    /\ gen.state = "open"
    /\ gen.remaining # <<>>
    /\ \E n \in 1..Min(MaxFragment, Len(gen.remaining)) :
         /\ printed' = printed \o TakeFragment(gen.remaining, n)
         /\ gen' = [gen EXCEPT !.remaining = DropFragment(@, n)]
    /\ UNCHANGED <<pc, out, bound, calls, faults, loopAnswers>>
    /\ UNCHANGED globals

\* The backend fails while the generation is open.
StreamFail ==
    /\ pc = 12
    /\ gen.state = "open"
    /\ gen.remaining # <<>>
    /\ gen' = [gen EXCEPT !.state = "closed"]
    /\ faults' = [emb |-> {}, gen |-> {1}]
    /\ Ends("stream", [kind |-> "GenerationError", value |-> printed])
    /\ UNCHANGED <<bound, calls, loopAnswers, printed>>
    /\ UNCHANGED globals

\* The model signals completion: the iterator is exhausted.
StreamEnd ==
    /\ pc = 12
    /\ gen.state = "open"
    /\ gen.remaining = <<>>
    /\ gen' = [gen EXCEPT !.state = "closed"]
    /\ Ends("stream", Ok(printed))
    /\ UNCHANGED <<bound, calls, faults, loopAnswers, printed>>
    /\ UNCHANGED globals

(***************************************************************************)
(* Cell 13: chain.batch([{"question": q} for q in questions]), with the    *)
(* default return_exceptions=False.  A sequence runs a batch step by step  *)
(* over all the inputs; an exception in any input of a step is raised.     *)
(***************************************************************************)
Lowest(S) == CHOOSE i \in S : \A j \in S : i <= j

Failed(results) == {i \in DOMAIN results : results[i].kind # "ok"}

\* Gather with the outputs in the reverse of the inputs' order.
GatherReversed(results) ==
    [i \in DOMAIN results |-> results[Len(results) + 1 - i].value]

\* The outputs in the order of the inputs.
Gather(results) == [i \in DOMAIN results |-> results[i].value]

\* Raise as batch(..., return_exceptions=True) would be: every position
\* keeps its output or its exception.
ReturnExceptions(results) ==
    Ok([i \in DOMAIN results |->
          IF results[i].kind = "ok" THEN results[i].value
          ELSE <<Tok(results[i].kind, 0)>>])

\* The outcome of the batch call given each position's result: the list of
\* outputs, or the exception of the first input that raised.
Raise(results) ==
    IF Failed(results) = {} THEN Ok(Gather(results))
    ELSE Err(results[Lowest(Failed(results))].kind)

BatchRun(qs, f) ==
    IF chain = "retrieval"
    THEN LET ctx == [i \in DOMAIN qs |->
                        Retrieve(retriever, qs[i], i \in f.emb, tieOrder)]
         IN  IF Failed(ctx) # {}
             THEN [result |-> Raise(ctx),
                   traces |-> [i \in DOMAIN qs |->
                                 Trace(Err(IF ctx[i].kind = "ok" THEN "cancelled"
                                           ELSE ctx[i].kind),
                                       qs[i], ctx[i].value, <<>>, FALSE)]]
             ELSE LET prompts == [i \in DOMAIN qs |->
                                     PromptFormat(ListValue(ctx[i].value), qs[i])]
                      answers == [i \in DOMAIN qs |->
                                     SimpleInvoke(model, prompts[i], i \in f.gen)]
                  IN  [result |-> Raise(answers),
                       traces |-> [i \in DOMAIN qs |->
                                     Trace(answers[i], qs[i], ctx[i].value,
                                           prompts[i], TRUE)]]
    ELSE LET runs == [i \in DOMAIN qs |->
                        ChainInvoke(chain, model, retriever, qs[i],
                                    FALSE, FALSE, tieOrder)]
         IN  [result |-> Raise(runs), traces |-> runs]

BatchCell ==
    /\ pc = 13
    /\ IF "questions" \in bound
       THEN \E f \in FaultSets(Len(questions)) :
              LET b == BatchRun(questions, f)
              IN  /\ faults' = f
                  /\ calls' = b.traces
                  /\ Ends("batch", b.result)
       ELSE /\ faults' = NoFaults
            /\ calls' = <<>>
            /\ Ends("batch", Err("NameError"))
    /\ UNCHANGED <<bound, loopAnswers, gen, printed>>
    /\ UNCHANGED globals

Next ==
    \/ ConfigCell
    \/ InitCell
    \/ SimpleChainCell
    \/ LoadCell
    \/ PromptCell
    \/ PromptChainCell
    \/ SchemaCell
    \/ VectorStoreCell
    \/ RetrieverCell
    \/ RagChainCell
    \/ LoopCell
    \/ StreamOpen
    \/ StreamFragment
    \/ StreamFail
    \/ StreamEnd
    \/ BatchCell

Spec == Init /\ [][Next]_vars

(***************************************************************************)
(* The index on its own: documents are added one at a time, as add_texts   *)
(* does, and the index is searched as the retriever searches it, with any  *)
(* query vector of the embedder, any limit up to the retriever's and any   *)
(* order among equal scores.  Searching leaves the index as it is, so a    *)
(* second search before the next add reaches nothing the first could not.  *)
(***************************************************************************)
SearchInit ==
    /\ pc = 0
    /\ bound = {"vectorstore"}
    /\ MODEL = <<"", "">>
    /\ model = ""
    /\ embeddings = "HuggingFaceEmbeddings"
    /\ response = NoResponse
    /\ chain = ""
    /\ pages = <<>>
    /\ vectorstore = EmptyStore("HuggingFaceEmbeddings")
    /\ retriever = [vectorstore |-> EmptyStore(""), k |-> 0]
    /\ questions = <<>>
    /\ tieOrder = <<>>
    /\ out = [cell |-> "", kind |-> "ok", value |-> <<>>]
    /\ calls = <<>>
    /\ faults = NoFaults
    /\ loopAnswers = <<>>
    /\ gen = NoGen
    /\ printed = <<>>
    /\ probe = NoProbe

IndexAdd ==
    /\ pc = 0
    /\ Len(vectorstore.docs) < MaxIndex
    /\ \E v \in Vecs :
         vectorstore' = Add(vectorstore,
                            Document(Text(Len(vectorstore.docs) + 1),
                                     Len(vectorstore.docs)),
                            Embed(vectorstore.embedding, v))
    /\ out' = [cell |-> "add", kind |-> "ok", value |-> <<>>]
    /\ probe' = NoProbe
    /\ UNCHANGED <<pc, bound, MODEL, model, embeddings, response, chain, pages,
                   retriever, questions, tieOrder, calls, faults, loopAnswers,
                   gen, printed>>

IndexSearch ==
    /\ pc = 0
    /\ probe = NoProbe
    /\ \E v \in Vecs, k \in 1..DefaultK, prio \in Permutations(DOMAIN vectorstore.docs) :
         LET retr == [AsRetriever(vectorstore) EXCEPT !.k = k]
             qv == Embed(QueryEmbedder(retr), v)
             r == Search(retr.vectorstore, qv, retr.k, prio)
         IN  /\ probe' = [query |-> qv, k |-> retr.k]
             /\ out' = [cell |-> "search", kind |-> r.kind, value |-> r.value]
    /\ UNCHANGED <<pc, bound, MODEL, model, embeddings, response, chain, pages,
                   vectorstore, retriever, questions, tieOrder, calls, faults,
                   loopAnswers, gen, printed>>

SearchNext == IndexAdd \/ IndexSearch

SearchSpec == SearchInit /\ [][SearchNext]_vars

(***************************************************************************)
(* Properties.                                                             *)
(***************************************************************************)
\* The answer chain.invoke returns for a question when no backend fails.
SingleShot(question) ==
    ChainInvoke(chain, model, retriever, question, FALSE, FALSE, tieOrder).value

FailedPositions == faults.emb \cup faults.gen

BatchRan == out.cell = "batch" /\ chain = "retrieval"

\* C1 (as claimed): the batch cell returns a result for every position,
\* whichever positions fail: an error marker at each failing position and the
\* answer at every other one; no failure reaches the caller.
C1_BatchIsolatesFailures ==
    BatchRan =>
        /\ out.kind = "ok"
        /\ Len(out.value) = Len(questions)
        /\ \A i \in DOMAIN questions :
               i \notin FailedPositions => out.value[i] = SingleShot(questions[i])

\* C1 (amended): the batch cell returns a result for every position, each
\* the position's answer, exactly when no position fails; when any position
\* fails the call raises (the embedding error if an embedding failed, the
\* generation error otherwise) and the caller gets no per-position results.
C1_BatchRaisesOnAnyFailure ==
    BatchRan =>
        IF FailedPositions = {}
        THEN /\ out.kind = "ok"
             /\ Len(out.value) = Len(questions)
             /\ \A i \in DOMAIN questions : out.value[i] = SingleShot(questions[i])
        ELSE /\ out.kind = (IF faults.emb # {} THEN "EmbeddingError"
                            ELSE "GenerationError")
             /\ out.value = <<>>

\* A batch in which the second question's generation failed and the first
\* question's did not.
C1_BatchRaisedWitness ==
    /\ BatchRan
    /\ faults = [emb |-> {}, gen |-> {2}]
    /\ out.kind = "GenerationError"
    /\ calls[1].kind = "ok"

\* C2: a batch that returns has one element per question, the i-th equal to
\* the answer chain.invoke gives question i (and gave it in the question
\* loop), in the order of the input.
C2_BatchMatchesInvoke ==
    (BatchRan /\ out.kind = "ok") =>
        /\ Len(out.value) = Len(questions)
        /\ \A i \in DOMAIN questions :
              /\ out.value[i] = SingleShot(questions[i])
              /\ i <= Len(loopAnswers) => out.value[i] = loopAnswers[i]

\* A batch of two questions over two pages that returned, after a question
\* loop that answered both; the two answers differ.
C2_BatchReturnedWitness ==
    /\ BatchRan
    /\ out.kind = "ok"
    /\ Len(out.value) = 2
    /\ Len(loopAnswers) = 2
    /\ Len(vectorstore.docs) = 2
    /\ out.value[1] # out.value[2]

Separators == {<<>>, Lit(" "), Lit("\n"), Lit("\n\n")}

PageTexts(docs) == [j \in DOMAIN docs |-> docs[j].page_content]

\* C3 (as claimed): the context in every prompt handed to the model is the
\* texts of the retrieved documents, in rank order, joined by a separator, and
\* nothing else (the empty string when nothing was retrieved).
C3_ContextIsJoinedTexts ==
    \A i \in DOMAIN calls :
        calls[i].called =>
            \E sep \in Separators :
                calls[i].prompt =
                    PromptFormat(StrValue(JoinSeq(PageTexts(calls[i].docs), sep)),
                                 calls[i].question)

\* C4 (as claimed): for either MODEL, the initialization cell ends without an
\* exception (the backend answering) and prints a response that the model it
\* selected produced.
C4_InitCellPrintsSelectedResponse ==
    (out.cell = "init" /\ faults.gen = {}) =>
        /\ out.kind = "ok"
        /\ out.value.by = model

Stored == vectorstore.docs

Score(p) == CosineSim(probe.query, Stored[p].embedding)

Searched == out.cell = "search"

StreamIsOpen == pc = 12 /\ gen.state = "open"

Queries == {QueryCities, QueryBamiyan, QueryOverview, QuestionLanguages,
            QuestionPopulation}

\* C9: for either MODEL, the store is built with the HuggingFace embedder and
\* the retriever embeds queries with the store's embedder, so the stored
\* vectors and the query vectors have one dimension, and no cell raises a
\* dimension mismatch.
C9_OneEmbedderOneDimension ==
    /\ "vectorstore" \in bound =>
          /\ vectorstore.embedding = "HuggingFaceEmbeddings"
          /\ \A i \in DOMAIN vectorstore.docs :
                Len(vectorstore.docs[i].embedding) = Dim(vectorstore.embedding)
    /\ "retriever" \in bound =>
          /\ retriever.vectorstore = vectorstore
          /\ QueryEmbedder(retriever) = vectorstore.embedding
          /\ \A q \in Queries :
                Len(EmbedQuery(QueryEmbedder(retriever), q))
                    = Dim(vectorstore.embedding)
    /\ out.kind # "DimensionMismatch"
    /\ \A i \in DOMAIN calls : calls[i].kind # "DimensionMismatch"

\* All cells have run with the gpt model selected, over a store of two pages,
\* and the batch returned.
C9_GptRunWitness ==
    /\ pc = 14
    /\ StartsWithGpt(MODEL)
    /\ Len(vectorstore.docs) = 2
    /\ out.cell = "batch"
    /\ out.kind = "ok"

pipeline == <<chain, vectorstore, retriever, embeddings, pages, tieOrder>>

\* C10: chain is bound to model|parser, then to prompt|model|parser, then
\* (the retriever being bound) to the retrieval pipeline; from then on the
\* question loop, the stream cell and the batch cell run with chain bound to
\* the retrieval pipeline, over the store the retriever was made from, and
\* none of their steps rebinds or changes the chain, the store, the retriever
\* or the embedder.
C10_QueryCellsUseRetrievalChain ==
    /\ [](/\ pc \in 4..6 => chain = "model|parser"
          /\ pc \in 7..10 => chain = "prompt|model|parser"
          /\ (pc \in 11..14 /\ "retriever" \in bound) =>
                /\ chain = "retrieval"
                /\ "vectorstore" \in bound
                /\ retriever = AsRetriever(vectorstore)
          /\ (out.cell \in {"loop", "stream", "batch"} /\ "retriever" \in bound) =>
                \A i \in DOMAIN calls : calls[i].kind \notin {"KeyError", "ValueError"})
    /\ [][(pc \in 11..13) => UNCHANGED pipeline]_vars

\* The three query cells have run on the retrieval pipeline.
C10_QueryCellsRanWitness ==
    /\ pc = 14
    /\ chain = "retrieval"
    /\ out.cell = "batch"
    /\ out.kind = "ok"
    /\ Len(loopAnswers) = 2

====
